---- MODULE Spec2Model ----
(***************************************************************************)
(* RDA Career Agent: the relay server (src/server.js) and the browser chat *)
(* client (src/frontend-html/script.js) as one state machine.              *)
(*                                                                         *)
(* Text is modelled by its shape: `lead` whitespace characters, then a     *)
(* `core` of that many characters that begins and ends with a              *)
(* non-whitespace character (or is empty), then `trail` whitespace         *)
(* characters; `tag` names the content of the core.  String.length and     *)
(* String.trim are computed on that shape.                                 *)
(***************************************************************************)
EXTENDS Integers, Sequences, FiniteSets, TLC

\* ------------------------------------------------------------------ bounds
MaxPad == 1
MaxTranscript == 2
MaxTimers == 2
MaxHealth == 2

\* ------------------------------------------------------- program constants
MAX_MESSAGE_LENGTH == 4000
RETRY_ATTEMPTS == 3
SERVER_MAX_LENGTH == 4000

\* ------------------------------------------------------------------- text
Tags == {"a", "b"}

EmptyStr == [lead |-> 0, core |-> 0, trail |-> 0, tag |-> ""]

CoreLens == {1, SERVER_MAX_LENGTH - 1, SERVER_MAX_LENGTH, SERVER_MAX_LENGTH + 1}

\* every text value of the model: whitespace-only texts have core 0
Strs ==
    { [lead |-> l, core |-> 0, trail |-> 0, tag |-> ""] : l \in 0..(2 * MaxPad) }
    \cup
    { [lead |-> l, core |-> c, trail |-> t, tag |-> g] :
        l \in 0..MaxPad, c \in CoreLens, t \in 0..MaxPad, g \in Tags }

JsLength(s) == s.lead + s.core + s.trail

Trim(s) == IF s.core = 0 THEN EmptyStr
           ELSE [lead |-> 0, core |-> s.core, trail |-> 0, tag |-> s.tag]

\* --------------------------------------------------------- JSON values
\* a value of a JSON body field: absent (undefined), null, a number, an
\* object/array, or a string
Absent == [kind |-> "absent", num |-> 0, str |-> EmptyStr]
JsNull == [kind |-> "null", num |-> 0, str |-> EmptyStr]
JsNum(n) == [kind |-> "number", num |-> n, str |-> EmptyStr]
JsObj == [kind |-> "object", num |-> 0, str |-> EmptyStr]
JsStr(s) == [kind |-> "string", num |-> 0, str |-> s]

\* JavaScript truthiness of a value
Truthy(v) ==
    CASE v.kind = "absent" -> FALSE
      [] v.kind = "null"   -> FALSE
      [] v.kind = "number" -> v.num # 0
      [] v.kind = "object" -> TRUE
      [] v.kind = "string" -> JsLength(v.str) > 0

MessageValues ==
    {Absent, JsNull, JsNum(0), JsNum(1), JsObj} \cup { JsStr(s) : s \in Strs }

Sid(g) == [lead |-> 0, core |-> 1, trail |-> 0, tag |-> g]
AnonymousStr == [lead |-> 0, core |-> 1, trail |-> 0, tag |-> "anonymous"]

SessionValues ==
    {Absent, JsNull, JsStr(EmptyStr), JsStr(Sid("s1")), JsStr(Sid("s2"))}


\* ==================================================================
\*                       the relay server
\* ==================================================================
VARIABLES
    keyPresent,     \* process.env.OPENAI_API_KEY is a non-empty string
    nodeEnv,        \* process.env.NODE_ENV
    openai,         \* the module-level `openai` client is defined
    srvPhase,       \* "idle", "awaiting" (chat handler suspended), "done"
    srvReq,         \* the request being processed
    srvResp,        \* the response sent for it
    srvSent,        \* number of responses sent for it
    dsCalls,        \* downstream calls made for it
    srvDs           \* how its downstream call settled

serverVars ==
    <<keyPresent, nodeEnv, openai, srvPhase, srvReq, srvResp, srvSent, dsCalls, srvDs>>

NodeEnvs == {"unset", "production", "development", "test"}

NoField == "<absent>"

\* the fixed texts of the server
MSG_REQUIRED == "Message is required and must be a non-empty string"
MSG_TOO_LONG == "Message too long. Please limit to 4000 characters."
MSG_NOT_CONFIGURED == "OpenAI API is not configured. Please check your API key."
MSG_QUOTA == "API quota exceeded. Please add credits to your OpenAI account."
MSG_INVALID_KEY == "Invalid OpenAI API key. Please check your configuration."
MSG_RATE_LIMIT == "Rate limit exceeded. Please try again in a moment."
MSG_CONTEXT == "Message too long for the model. Please shorten your message."
MSG_UNEXPECTED == "An unexpected error occurred. Please try again."
MSG_INTERNAL == "Internal server error"
MSG_NOT_FOUND == "Endpoint not found"

FixedMessages ==
    {MSG_REQUIRED, MSG_TOO_LONG, MSG_NOT_CONFIGURED, MSG_QUOTA, MSG_INVALID_KEY,
     MSG_RATE_LIMIT, MSG_CONTEXT, MSG_UNEXPECTED, MSG_INTERNAL, MSG_NOT_FOUND}

\* a response: the status line and the fields of the JSON body that matter
Response(status, error, code, details) ==
    [status |-> status, error |-> error, code |-> code, details |-> details,
     reply |-> NoField, sessionId |-> Absent, configured |-> NoField]

NoResp == Response(0, NoField, NoField, NoField)

\* mutant: the detail is withheld in production only
DetailsField_NotProduction(error) ==
    IF nodeEnv # "production" THEN error.message ELSE NoField

\* lines 145, 202: JSON.stringify drops a field whose value is undefined
DetailsField(error) == IF nodeEnv = "development" THEN error.message ELSE NoField

\* --- startup: lines 32-45
\* `openai` is defined only when the key is present and the constructor
\* did not throw
InitOpenAI(key, ctorThrows) == key /\ ~ctorThrows

\* --- POST /api/chat: lines 65-149
\* mutant: the emptiness test without trim()
IsInvalidMessage_NoTrim(message) ==
    \/ ~Truthy(message)
    \/ message.kind # "string"
    \/ JsLength(message.str) = 0

\* line 70
IsInvalidMessage(message) ==
    \/ ~Truthy(message)
    \/ message.kind # "string"
    \/ JsLength(Trim(message.str)) = 0

\* line 76
IsTooLong(message) == JsLength(message.str) > SERVER_MAX_LENGTH

\* line 89
UserSessionId(sessionId) ==
    IF Truthy(sessionId) THEN sessionId ELSE JsStr(AnonymousStr)

\* lines 67-87: the response returned before the downstream call, or NoResp
\* when the handler goes on to call the downstream API
ChatBeforeAwait(body) ==
    IF IsInvalidMessage(body.message)
    THEN Response(400, MSG_REQUIRED, NoField, NoField)
    ELSE IF IsTooLong(body.message)
    THEN Response(400, MSG_TOO_LONG, NoField, NoField)
    ELSE IF ~openai
    THEN Response(500, MSG_NOT_CONFIGURED, NoField, NoField)
    ELSE NoResp

\* how the downstream call settles: it resolves with a completion (whose
\* choices may be empty and whose content may be null) or rejects
Resolve(choices, content) ==
    [kind |-> "resolve", choices |-> choices, content |-> content,
     code |-> NoField, message |-> NoField]
Reject(code) ==
    [kind |-> "reject", choices |-> 0, content |-> NoField,
     code |-> code, message |-> "raw downstream text"]

NoDs ==
    [kind |-> "none", choices |-> 0, content |-> NoField,
     code |-> NoField, message |-> NoField]

DownstreamCodes ==
    {"insufficient_quota", "invalid_api_key", "rate_limit_exceeded",
     "context_length_exceeded", "model_not_found", NoField}

DownstreamOutcomes ==
    {Resolve(1, "text"), Resolve(1, "null"), Resolve(0, NoField)}
    \cup { Reject(c) : c \in DownstreamCodes }

TypeErr == [code |-> NoField, message |-> "raw TypeError text"]
ParseErr == [code |-> NoField, message |-> "raw SyntaxError text"]

\* lines 93-107: the error the try block throws after the await, or a
\* record with code "<ok>" when it reaches res.json
ThrownAfterAwait(ds) ==
    IF ds.kind = "reject" THEN [code |-> ds.code, message |-> ds.message]
    ELSE IF ds.choices = 0 THEN TypeErr
    ELSE IF ds.content = "null" THEN TypeErr
    ELSE [code |-> "<ok>", message |-> NoField]

\* lines 110-115
ChatSuccess(body, ds) ==
    [Response(200, NoField, NoField, NoField) EXCEPT
        !.reply = ds.content, !.sessionId = UserSessionId(body.sessionId)]

\* mutant: the rate-limit branch answers like the unmapped branch
ChatCatch_RateLimitUnmapped(error) ==
    IF error.code = "insufficient_quota"
    THEN Response(429, MSG_QUOTA, "quota_exceeded", NoField)
    ELSE IF error.code = "invalid_api_key"
    THEN Response(401, MSG_INVALID_KEY, "invalid_key", NoField)
    ELSE IF error.code = "context_length_exceeded"
    THEN Response(400, MSG_CONTEXT, "context_length", NoField)
    ELSE Response(500, MSG_UNEXPECTED, "server_error", DetailsField(error))

\* lines 117-148
ChatCatch(error) ==
    IF error.code = "insufficient_quota"
    THEN Response(429, MSG_QUOTA, "quota_exceeded", NoField)
    ELSE IF error.code = "invalid_api_key"
    THEN Response(401, MSG_INVALID_KEY, "invalid_key", NoField)
    ELSE IF error.code = "rate_limit_exceeded"
    THEN Response(429, MSG_RATE_LIMIT, "rate_limit", NoField)
    ELSE IF error.code = "context_length_exceeded"
    THEN Response(400, MSG_CONTEXT, "context_length", NoField)
    ELSE Response(500, MSG_UNEXPECTED, "server_error", DetailsField(error))

\* lines 93-148: the response once the downstream call has settled
ChatAfterAwait(body, ds) ==
    IF ThrownAfterAwait(ds).code = "<ok>"
    THEN ChatSuccess(body, ds)
    ELSE ChatCatch(ThrownAfterAwait(ds))

\* --- GET /api/health: lines 152-163
HealthResponse ==
    [Response(200, NoField, NoField, NoField) EXCEPT
        !.configured = IF keyPresent THEN "true" ELSE "false"]

\* --- GET /: lines 166-180
RootResponse == Response(200, NoField, NoField, NoField)

\* --- 404 handler: lines 183-194
NotFoundResponse == Response(404, MSG_NOT_FOUND, NoField, NoField)

\* --- global error handler: lines 197-204
GlobalErrorHandler(error) ==
    Response(500, MSG_INTERNAL, NoField, DetailsField(error))


\* ==================================================================
\*                       the chat client
\* ==================================================================
VARIABLES
    messages,       \* state.messages, the transcript
    isLoading,      \* state.isLoading
    retryCount,     \* state.retryCount
    inputValue,     \* elements.messageInput.value
    sendDisabled,   \* elements.sendButton.disabled
    typingVisible,  \* the typing indicator is shown
    errorVisible,   \* the error banner is shown
    connection,     \* the connection indicator: "unknown", "online", "offline"
    inflight,       \* the handleSendMessage calls suspended in sendToAPI
    retryTimers,    \* the pending retry-prompt timeouts, in firing order
    healthInFlight, \* the checkBackendHealth calls suspended in fetch, in
                    \* call order; TRUE marks the one called last
    watch,          \* history: the message whose retry prompts are counted
    late,           \* the response to a request aborted by its timeout is
                    \* still on its way
    last            \* history: the handler that ran last and the dialog it
                    \* showed, where handlers are observed

\* the state of script.js: `state` and the page elements
clientState ==
    <<messages, isLoading, retryCount, inputValue, sendDisabled, typingVisible,
      errorVisible, connection>>

clientVars ==
    <<clientState, inflight, retryTimers, healthInFlight, watch, late, last>>

\* history: what `last` holds after a handler ran
Ran(act, asked, confirmed) == [act |-> act, asked |-> asked, confirmed |-> confirmed]
Unobserved == Ran("unobserved", FALSE, FALSE)
Observing == last # Unobserved

\* the frame of a client step: the relay and the watched message stay, and
\* `last` records the handler where handlers are observed
Did(ran) ==
    /\ last' = IF Observing THEN ran ELSE last
    /\ UNCHANGED <<serverVars, watch>>

\* a client step of no handler of interest that leaves `late` alone
Other == Did(Ran("other", FALSE, FALSE)) /\ UNCHANGED late

vars == <<serverVars, clientVars>>

\* the session id the client generated at load: line 14
ClientSession == JsStr(Sid("s1"))

\* the fixed texts of the client
TXT_DEFAULT == "Sorry, something went wrong. Please try again."
TXT_TIMEOUT == "Request timed out. Please try again."
TXT_NETWORK == "Cannot connect to server. Please check if the backend is running."
TXT_QUOTA == "API quota exceeded. Please add credits to your OpenAI account."
TXT_AUTH == "Authentication error. Please check the API configuration."
TXT_RATE == "Rate limit exceeded. Please wait a moment and try again."
TXT_CONTEXT == "Message too long for the model. Please shorten your message."
TXT_HTTP == "HTTP <status>"

\* a transcript entry: lines 285-312.  `text` is the text of an assistant or
\* error entry; `of` is the content of a user entry and, as history, the
\* message of the request an assistant or error entry belongs to
\* `sources` is the sources parameter, an empty array by default
NoSources == "[]"
Entry(role, text, of) ==
    [role |-> role, text |-> text, of |-> of, sources |-> NoSources]

\* mutant: the entry is stored without the sources passed
StoredSources_Dropped(sources) == NoSources

\* --- addMessage: line 285, the default of the sources parameter
StoredSources(sources) == IF sources = NoField THEN NoSources ELSE sources

\* mutant: the entry replaces the transcript
AddMessage_Replaces(entry) == <<entry>>

\* --- addMessage: line 311, the entry is pushed onto state.messages
AddMessage(entry) == Append(messages, entry)

\* --- addMessage: lines 293-294, sources.join is called on a value that has
\* a length and is no array
AddMessageThrows(sources) == sources = "text"

\* mutant: the send button enabled whatever the length of the input
CanSend_AnyLength(value, loading) ==
    /\ JsLength(Trim(value)) > 0
    /\ ~loading

\* --- handleInputChange: line 111
CanSend(value, loading) ==
    /\ JsLength(Trim(value)) > 0
    /\ JsLength(value) <= MAX_MESSAGE_LENGTH
    /\ ~loading

\* mutant: the early return without the isLoading test
SendRejected_NoLoadingGuard(message) == JsLength(message) = 0

\* --- handleSendMessage: the early return of line 143
SendRejected(message) == JsLength(message) = 0 \/ isLoading

\* --- the APIError class: lines 221-228; a non-APIError has api = FALSE
APIError(status, message, code) ==
    [api |-> TRUE, status |-> status, message |-> message, code |-> code]
OtherError == [api |-> FALSE, status |-> 0, message |-> NoField, code |-> NoField]

\* mutant: a body that is not JSON makes response.json() reject, and the
\* rejection is reported as a network error
ErrorFromResponse_ParseFails(r) ==
    IF r.json
    THEN APIError(r.status, IF r.error = NoField THEN TXT_HTTP ELSE r.error, r.code)
    ELSE APIError(0, TXT_NETWORK, "network")

\* --- sendToAPI: lines 197-200, the error thrown for a non-ok response.
\* A body that is not JSON reads as the empty object.
ErrorFromResponse(r) ==
    IF r.json
    THEN APIError(r.status, IF r.error = NoField THEN TXT_HTTP ELSE r.error, r.code)
    ELSE APIError(r.status, TXT_HTTP, NoField)

\* mutant: an abort reported like any other failure of fetch
TimeoutError_AsNetwork == APIError(0, TXT_NETWORK, "network")

\* --- sendToAPI: lines 204-217, the catch block
TimeoutError == APIError(408, TXT_TIMEOUT, "timeout")
NetworkError == APIError(0, TXT_NETWORK, "network")

\* --- handleAPIError: lines 232-265, the text shown for an error
ErrorText(error) ==
    IF ~error.api THEN TXT_DEFAULT
    ELSE CASE error.code = "timeout"        -> TXT_TIMEOUT
           [] error.code = "network"        -> TXT_NETWORK
           [] error.code = "quota_exceeded" -> TXT_QUOTA
           [] error.code = "invalid_key"    -> TXT_AUTH
           [] error.code = "rate_limit"     -> TXT_RATE
           [] error.code = "context_length" -> TXT_CONTEXT
           [] OTHER -> IF error.message = NoField THEN TXT_DEFAULT ELSE error.message

\* mutant: every error can be retried
CanRetry_Always(error) == TRUE

\* --- handleAPIError: lines 232-265, canRetry
CanRetry(error) ==
    IF ~error.api THEN TRUE
    ELSE CASE error.code = "timeout"        -> TRUE
           [] error.code = "network"        -> FALSE
           [] error.code = "quota_exceeded" -> FALSE
           [] error.code = "invalid_key"    -> FALSE
           [] error.code = "rate_limit"     -> TRUE
           [] error.code = "context_length" -> FALSE
           [] OTHER -> error.status >= 500

\* --- handleAPIError: line 243
MarksOffline(error) == error.api /\ error.code = "network"

\* mutant: the retry is not capped
RetryAllowed_NoCap(error) == CanRetry(error)

\* mutant: one retry more than the cap
RetryAllowed_CapInclusive(error) == CanRetry(error) /\ retryCount <= RETRY_ATTEMPTS

\* --- handleAPIError: line 272
RetryAllowed(error) == CanRetry(error) /\ retryCount < RETRY_ATTEMPTS


\* --- what the client sees of an HTTP response
\* `json`: the body parses as JSON; `value`: what it parses to; `sources`:
\* the sources field of the parsed object.  The relay answers 200 with
\* sources: [] (server.js line 112).
ClientView(r) ==
    [status |-> r.status, json |-> TRUE, value |-> "object", error |-> r.error,
     code |-> r.code, reply |-> r.reply,
     sources |-> IF r.status = 200 THEN NoSources ELSE NoField]

NoClientResp ==
    [status |-> 0, json |-> FALSE, value |-> NoField, error |-> NoField,
     code |-> NoField, reply |-> NoField, sources |-> NoField]

\* responses that do not come from the relay: a gateway error page, and a
\* 200 whose body is cut short
GatewayResponses ==
    { [NoClientResp EXCEPT !.status = st] : st \in {200, 404, 502} }

\* 200 responses of a server that is not this relay: a body that is the
\* JSON value null, and a reply whose sources are a text or a list of names
ForeignResponses ==
    { [NoClientResp EXCEPT !.status = 200, !.json = TRUE, !.value = "null"] }
    \cup { [NoClientResp EXCEPT !.status = 200, !.json = TRUE, !.value = "object",
                                !.reply = "text", !.sources = src] :
              src \in {"text", "[s]"} }

\* the relay's answer to a chat request
ServerAnswer(body, ds) ==
    IF ChatBeforeAwait(body) # NoResp
    THEN ChatBeforeAwait(body)
    ELSE ChatAfterAwait(body, ds)

\* response.ok
IsOk(r) == r.status >= 200 /\ r.status <= 299

RemoveAt(seq, i) == SubSeq(seq, 1, i - 1) \o SubSeq(seq, i + 1, Len(seq))

Min(a, b) == IF a <= b THEN a ELSE b

\* history: the number of retry prompts shown for a message once one more
\* is shown, counted for the watched message only and up to one past the cap
NextChain(message, chain) ==
    IF message = watch THEN Min(chain + 1, RETRY_ATTEMPTS + 1) ELSE 0

\* what the user types or pastes into the input: blanks only, a text of
\* exactly the longest length allowed, a short text between blanks, and a
\* text one character longer than allowed
ClientInputs ==
    { [lead |-> 1, core |-> 0, trail |-> 0, tag |-> ""],
      [lead |-> 0, core |-> MAX_MESSAGE_LENGTH, trail |-> 0, tag |-> "a"],
      [lead |-> 1, core |-> 1, trail |-> 1, tag |-> "b"],
      [lead |-> 0, core |-> MAX_MESSAGE_LENGTH + 1, trail |-> 0, tag |-> "a"] }

\* --- handleSendMessage up to its await: lines 141-162, called with the
\* input holding `value` and the send button's state `disabled`; `chain`
\* is history: the retry prompts shown so far for this message
HandleSendMessage(value, disabled, chain) ==
    IF SendRejected(Trim(value))
    THEN /\ inputValue' = value
         /\ sendDisabled' = disabled
         /\ UNCHANGED <<messages, typingVisible, errorVisible, isLoading, inflight>>
    ELSE /\ messages' = AddMessage(Entry("user", NoField, Trim(value)))
         /\ inputValue' = EmptyStr
         /\ sendDisabled' = ~CanSend(EmptyStr, isLoading)
         /\ typingVisible' = TRUE
         /\ errorVisible' = FALSE
         /\ isLoading' = TRUE
         /\ inflight' = Append(inflight,
                [message |-> Trim(value), phase |-> "fetch", timer |-> TRUE,
                 resp |-> NoClientResp, chain |-> chain])

\* the transcript still has room for a request and its answer
Room == Len(messages) + 2 <= MaxTranscript

\* the user starts a new message only while few retry prompts are pending
FewTimers == Len(retryTimers) < MaxTimers

\* --- the input event: lines 69, 94-113
TypeInput(v) ==
    /\ v # inputValue
    /\ inputValue' = v
    /\ sendDisabled' = ~CanSend(v, isLoading)
    /\ UNCHANGED <<messages, isLoading, retryCount, typingVisible, errorVisible,
                   connection, inflight, retryTimers, healthInFlight>>
    /\ Other

\* --- a click on the send button: line 66 (a disabled button gets no click)
ClickSend ==
    /\ ~sendDisabled
    /\ Room /\ FewTimers
    /\ HandleSendMessage(inputValue, sendDisabled, 0)
    /\ UNCHANGED <<retryCount, connection, retryTimers, healthInFlight>>
    /\ Other

\* --- Enter without shift: lines 116-123
PressEnter ==
    /\ Room /\ FewTimers
    /\ IF ~sendDisabled
       THEN HandleSendMessage(inputValue, sendDisabled, 0)
       ELSE UNCHANGED <<messages, inputValue, sendDisabled, typingVisible,
                        errorVisible, isLoading, inflight>>
    /\ UNCHANGED <<retryCount, connection, retryTimers, healthInFlight>>
    /\ Other

\* --- handleSendMessage after a successful sendToAPI: lines 164-166, 172-173
HandleSuccess(i) ==
    /\ typingVisible' = FALSE
    /\ messages' = AddMessage(
           [Entry("assistant", inflight[i].resp.reply, inflight[i].message)
               EXCEPT !.sources = StoredSources(inflight[i].resp.sources)])
    /\ retryCount' = 0
    /\ isLoading' = FALSE
    /\ sendDisabled' = ~CanSend(inputValue, FALSE)
    /\ inflight' = RemoveAt(inflight, i)
    /\ UNCHANGED <<inputValue, errorVisible, connection, retryTimers,
                   healthInFlight>>

\* --- handleSendMessage after a failed sendToAPI: lines 169-173, with
\* handleAPIError, lines 231-282
HandleFailure(i, error) ==
    /\ typingVisible' = FALSE
    /\ messages' = AddMessage(Entry("error", ErrorText(error), inflight[i].message))
    /\ errorVisible' = TRUE
    /\ connection' = IF MarksOffline(error) THEN "offline" ELSE connection
    /\ IF RetryAllowed(error)
       THEN /\ retryCount' = retryCount + 1
            /\ retryTimers' = Append(retryTimers,
                   [message |-> inflight[i].message, chain |-> inflight[i].chain])
       ELSE UNCHANGED <<retryCount, retryTimers>>
    /\ isLoading' = FALSE
    /\ sendDisabled' = ~CanSend(inputValue, FALSE)
    /\ inflight' = RemoveAt(inflight, i)
    /\ UNCHANGED <<inputValue, healthInFlight>>

\* --- sendToAPI: fetch resolves with the response head and the timer is
\* cleared: lines 183-195
FetchResolves(i, r) ==
    /\ i \in 1..Len(inflight)
    /\ inflight[i].phase = "fetch"
    /\ inflight' = [inflight EXCEPT ![i].phase = "body", ![i].timer = FALSE,
                                    ![i].resp = r]
    /\ UNCHANGED <<messages, isLoading, retryCount, inputValue, sendDisabled,
                   typingVisible, errorVisible, connection, retryTimers,
                   healthInFlight>>
    /\ Other

\* the relay answers: the response is what server.js computes for the body
RelayAnswers(i, ds) ==
    /\ i \in 1..Len(inflight)
    /\ FetchResolves(i, ClientView(ServerAnswer(
           [message |-> JsStr(inflight[i].message), sessionId |-> ClientSession], ds)))

\* something between the client and the relay answers
GatewayAnswers(i, r) == FetchResolves(i, r)

\* the server at API_BASE_URL is not this relay
ForeignAnswers(i, r) == FetchResolves(i, r)

\* --- sendToAPI: lines 197-217, what it throws once the body of response
\* `r` has been read, NoError if it returns.  A body that fails to parse
\* is an empty object for a non-ok response and a network error for an ok
\* one; reading a field of null throws inside the try block.
NoError == APIError(0, NoField, "none")
SendToAPIThrows(r) ==
    IF ~IsOk(r)
    THEN IF r.json /\ r.value = "null" THEN NetworkError ELSE ErrorFromResponse(r)
    ELSE IF ~r.json THEN NetworkError ELSE NoError

\* mutant: nothing is thrown on the success path
SuccessPathThrows_Never(r) == FALSE

\* --- handleSendMessage: lines 164-165, what the try block throws once
\* sendToAPI returned the parsed body of `r`
SuccessPathThrows(r) == r.value = "null" \/ AddMessageThrows(r.sources)

\* --- handleSendMessage resumes once the body has been read: lines 162-174
BodyRead(i) ==
    /\ i \in 1..Len(inflight)
    /\ inflight[i].phase = "body"
    /\ IF SendToAPIThrows(inflight[i].resp) # NoError
       THEN HandleFailure(i, SendToAPIThrows(inflight[i].resp))
       ELSE IF SuccessPathThrows(inflight[i].resp)
       THEN HandleFailure(i, OtherError)
       ELSE HandleSuccess(i)
    /\ Other

\* --- sendToAPI: fetch rejects, the server cannot be reached: line 216
FetchRejects(i) ==
    /\ i \in 1..Len(inflight)
    /\ inflight[i].phase = "fetch"
    /\ HandleFailure(i, NetworkError)
    /\ Other

\* --- sendToAPI: the 30 s timer fires and aborts the pending fetch: lines
\* 180, 207-209.  The response may still be on its way.
TimeoutFires(i) ==
    /\ i \in 1..Len(inflight)
    /\ inflight[i].timer
    /\ HandleFailure(i, TimeoutError)
    /\ late' = Observing
    /\ Did(Ran("other", FALSE, FALSE))

\* --- sendToAPI: the response to an aborted request arrives; the fetch
\* promise has been rejected by the abort and no code runs: lines 183-193
LateResponse ==
    /\ late
    /\ late' = FALSE
    /\ UNCHANGED <<clientState, inflight, retryTimers, healthInFlight>>
    /\ Did(Ran("late", FALSE, FALSE))

\* --- the retry prompt: lines 274-280
RetryPrompt(confirmed) ==
    /\ retryTimers # <<>>
    /\ confirmed => Room
    /\ retryTimers' = Tail(retryTimers)
    /\ IF confirmed
       THEN HandleSendMessage(Head(retryTimers).message,
                              ~CanSend(Head(retryTimers).message, isLoading),
                              NextChain(Head(retryTimers).message, Head(retryTimers).chain))
       ELSE UNCHANGED <<messages, inputValue, sendDisabled, typingVisible,
                        errorVisible, isLoading, inflight>>
    /\ UNCHANGED <<retryCount, connection, healthInFlight, late>>
    /\ Did(Ran("retry", TRUE, confirmed))

\* mutant: the confirmation is asked for on an empty transcript too
ClearAsks_Always == TRUE

\* --- handleClearChat: line 345, the confirmation is asked for
ClearAsks == Len(messages) # 0

\* --- handleClearChat: lines 344-368; `confirmed` is the user's answer
\* where the confirmation is asked for
ClearChat(confirmed) ==
    /\ IF ClearAsks /\ confirmed
       THEN /\ messages' = <<>>
            /\ errorVisible' = FALSE
       ELSE UNCHANGED <<messages, errorVisible>>
    /\ UNCHANGED <<isLoading, retryCount, inputValue, sendDisabled, typingVisible,
                   connection, inflight, retryTimers, healthInFlight, late>>
    /\ Did(Ran("clear", ClearAsks, ClearAsks /\ confirmed))

\* --- hideError on the dismiss button: line 77
DismissError ==
    /\ errorVisible
    /\ errorVisible' = FALSE
    /\ UNCHANGED <<messages, isLoading, retryCount, inputValue, sendDisabled,
                   typingVisible, connection, inflight, retryTimers,
                   healthInFlight>>
    /\ Other

\* --- checkBackendHealth is called: lines 38, 431, 434-443; it suspends in
\* fetch: line 398
HealthIssue ==
    /\ Len(healthInFlight) < MaxHealth
    /\ healthInFlight' = Append([k \in 1..Len(healthInFlight) |-> FALSE], TRUE)
    /\ UNCHANGED <<messages, isLoading, retryCount, inputValue, sendDisabled,
                   typingVisible, errorVisible, connection, inflight,
                   retryTimers>>
    /\ Other

\* --- checkBackendHealth resumes: lines 403-411
HealthResult(i, ok) ==
    /\ i \in 1..Len(healthInFlight)
    /\ healthInFlight' = RemoveAt(healthInFlight, i)
    /\ connection' = IF ok THEN "online" ELSE "offline"
    /\ UNCHANGED <<messages, isLoading, retryCount, inputValue, sendDisabled,
                   typingVisible, errorVisible, inflight, retryTimers>>
    /\ Other

\* the relay answers the health check
HealthAnswered(i) == HealthResult(i, IsOk(HealthResponse))

\* the health check's fetch rejects, or a gateway answers with an error
HealthFails(i) == HealthResult(i, FALSE)

\* --- the offline event: lines 445-448
GoOffline ==
    /\ connection' = "offline"
    /\ errorVisible' = TRUE
    /\ UNCHANGED <<messages, isLoading, retryCount, inputValue, sendDisabled,
                   typingVisible, inflight, retryTimers, healthInFlight>>
    /\ Other


\* ==================================================================
\*                       the relay server's steps
\* ==================================================================
ChatBodies == [message : MessageValues, sessionId : SessionValues]

NoReq == [route |-> "none", body |-> [message |-> Absent, sessionId |-> Absent]]

ChatReq(body) == [route |-> "POST /api/chat", body |-> body]
OtherReq(route) == [route |-> route, body |-> [message |-> Absent, sessionId |-> Absent]]

\* a chat request arrives with a body express.json could parse; the handler
\* runs to its first response or to the await of line 93
SrvChat(body) ==
    /\ srvPhase # "awaiting"
    /\ srvReq' = ChatReq(body)
    /\ IF ChatBeforeAwait(body) # NoResp
       THEN /\ srvPhase' = "done"
            /\ srvResp' = ChatBeforeAwait(body)
            /\ srvSent' = 1
            /\ dsCalls' = 0
       ELSE /\ srvPhase' = "awaiting"
            /\ srvResp' = NoResp
            /\ srvSent' = 0
            /\ dsCalls' = 1
    /\ srvDs' = NoDs
    /\ UNCHANGED <<keyPresent, nodeEnv, openai>>
    /\ UNCHANGED clientVars

\* the downstream call settles and the handler runs to its end
SrvDownstreamSettles(ds) ==
    /\ srvPhase = "awaiting"
    /\ srvPhase' = "done"
    /\ srvResp' = ChatAfterAwait(srvReq.body, ds)
    /\ srvSent' = srvSent + 1
    /\ srvDs' = ds
    /\ UNCHANGED <<keyPresent, nodeEnv, openai, srvReq, dsCalls>>
    /\ UNCHANGED clientVars

\* a chat request arrives with a body express.json cannot parse: line 20
\* passes the error to the global error handler
SrvMalformedBody ==
    /\ srvPhase # "awaiting"
    /\ srvReq' = OtherReq("POST /api/chat, malformed body")
    /\ srvPhase' = "done"
    /\ srvResp' = GlobalErrorHandler(ParseErr)
    /\ srvSent' = 1
    /\ dsCalls' = 0
    /\ srvDs' = NoDs
    /\ UNCHANGED <<keyPresent, nodeEnv, openai>>
    /\ UNCHANGED clientVars

\* a request for another route
SrvOther(route, resp) ==
    /\ srvPhase # "awaiting"
    /\ srvReq' = OtherReq(route)
    /\ srvPhase' = "done"
    /\ srvResp' = resp
    /\ srvSent' = 1
    /\ dsCalls' = 0
    /\ srvDs' = NoDs
    /\ UNCHANGED <<keyPresent, nodeEnv, openai>>
    /\ UNCHANGED clientVars

SrvHealth == SrvOther("GET /api/health", HealthResponse)
SrvRoot == SrvOther("GET /", RootResponse)
SrvNotFound == SrvOther("GET /nowhere", NotFoundResponse)

\* ==================================================================
\*                       specifications
\* ==================================================================
ClientStart(watched, observed) ==
    /\ messages = <<>>
    /\ isLoading = FALSE
    /\ retryCount = 0
    /\ inputValue = EmptyStr
    /\ sendDisabled \in BOOLEAN
    /\ typingVisible = FALSE
    /\ errorVisible = FALSE
    /\ connection = "unknown"
    /\ inflight = <<>>
    /\ retryTimers = <<>>
    /\ healthInFlight = <<TRUE>>
    /\ watch \in watched
    /\ late = FALSE
    /\ last = IF observed THEN Ran("other", FALSE, FALSE) ELSE Unobserved

ServerStart(keys, ctor, envs) ==
    /\ keyPresent \in keys
    /\ nodeEnv \in envs
    /\ \E ctorThrows \in ctor : openai = InitOpenAI(keyPresent, ctorThrows)
    /\ srvPhase = "idle"
    /\ srvReq = NoReq
    /\ srvResp = NoResp
    /\ srvSent = 0
    /\ dsCalls = 0
    /\ srvDs = NoDs

\* --- the relay alone, over every request and every startup outcome
ServerInit ==
    ServerStart(BOOLEAN, BOOLEAN, NodeEnvs) /\ ClientStart({EmptyStr}, FALSE) /\ sendDisabled

ServerNext ==
    \/ \E body \in ChatBodies : SrvChat(body)
    \/ \E ds \in DownstreamOutcomes : SrvDownstreamSettles(ds)
    \/ SrvMalformedBody
    \/ SrvHealth
    \/ SrvRoot
    \/ SrvNotFound

ServerSpec == ServerInit /\ [][ServerNext]_vars

\* --- the client, talking to a relay that started with its key
ClientInit ==
    ServerStart({TRUE}, {FALSE}, {"production"}) /\ ClientStart({EmptyStr}, FALSE)

ClientNext ==
    \/ \E v \in ClientInputs : TypeInput(v)
    \/ ClickSend
    \/ PressEnter
    \/ \E i \in 1..Len(inflight), ds \in DownstreamOutcomes : RelayAnswers(i, ds)
    \/ \E i \in 1..Len(inflight), r \in GatewayResponses : GatewayAnswers(i, r)
    \/ \E i \in 1..Len(inflight) : BodyRead(i)
    \/ \E i \in 1..Len(inflight) : FetchRejects(i)
    \/ \E i \in 1..Len(inflight) : TimeoutFires(i)
    \/ \E confirmed \in BOOLEAN : RetryPrompt(confirmed)
    \/ \E confirmed \in BOOLEAN : ClearChat(confirmed)
    \/ DismissError
    \/ healthInFlight = <<>> /\ HealthIssue
    \/ \E i \in 1..Len(healthInFlight) : HealthAnswered(i)
    \/ \E i \in 1..Len(healthInFlight) : HealthFails(i)
    \/ GoOffline

\* a health check is started when none is pending: a check takes less than
\* the 30 s between two of them
ClientSpec == ClientInit /\ [][ClientNext]_vars

\* --- the client with health checks that overlap: one started by the
\* interval, by the page becoming visible or by the online event while
\* earlier ones are pending
OverlapNext == ClientNext \/ HealthIssue

OverlapSpec == ClientInit /\ [][OverlapNext]_vars

\* --- the client again, with the retry prompts of one message counted
RetryInit ==
    ServerStart({TRUE}, {FALSE}, {"production"})
    /\ ClientStart({ Trim(v) : v \in { w \in ClientInputs : w.tag = "a" /\ CanSend(w, FALSE) } },
                   FALSE)

RetrySpec == RetryInit /\ [][ClientNext]_vars

\* --- the client with its timers sure to fire: a 30 s timer that stays
\* armed fires, while the relay and the network need never deliver
TimedSpec ==
    /\ ClientInit
    /\ [][ClientNext]_vars
    /\ WF_vars(\E i \in 1..Len(inflight) : TimeoutFires(i))

\* --- the client's chat handling with its handlers observed, also against
\* a server that is not this relay, and without the connection monitoring:
\* the health check started at load stays pending, no further one is
\* started and no offline event arrives
ChatInit ==
    ServerStart({TRUE}, {FALSE}, {"production"}) /\ ClientStart({EmptyStr}, TRUE)

ChatNext ==
    \/ \E v \in ClientInputs : TypeInput(v)
    \/ ClickSend
    \/ PressEnter
    \/ \E i \in 1..Len(inflight), ds \in DownstreamOutcomes : RelayAnswers(i, ds)
    \/ \E i \in 1..Len(inflight), r \in GatewayResponses : GatewayAnswers(i, r)
    \/ \E i \in 1..Len(inflight), r \in ForeignResponses : ForeignAnswers(i, r)
    \/ \E i \in 1..Len(inflight) : BodyRead(i)
    \/ \E i \in 1..Len(inflight) : FetchRejects(i)
    \/ \E i \in 1..Len(inflight) : TimeoutFires(i)
    \/ LateResponse
    \/ \E confirmed \in BOOLEAN : RetryPrompt(confirmed)
    \/ \E confirmed \in BOOLEAN : ClearChat(confirmed)
    \/ DismissError

ChatSpec == ChatInit /\ [][ChatNext]_vars


\* ==================================================================
\*                       properties of the relay
\* ==================================================================
ChatDone == srvPhase = "done" /\ srvReq.route = "POST /api/chat"

ReqMessage == srvReq.body.message

\* a message that is text, not empty once trimmed, and within the limit
\* even untrimmed
PlainlyValid(m) ==
    /\ m.kind = "string"
    /\ m.str.core > 0
    /\ m.str.lead + m.str.core + m.str.trail <= SERVER_MAX_LENGTH

RejectedAsTooLong == srvResp.status = 400 /\ srvResp.error = MSG_TOO_LONG

\* C3 (as claimed): a text message is rejected as too long exactly when its
\* trimmed length exceeds 4000; one whose trimmed length is at most 4000 is
\* answered 200 when the downstream call succeeds.
C3_TooLongIffTrimmedOver ==
    (ChatDone /\ ReqMessage.kind = "string" /\ ReqMessage.str.core > 0) =>
        /\ RejectedAsTooLong <=> ReqMessage.str.core > SERVER_MAX_LENGTH
        /\ (/\ ReqMessage.str.core <= SERVER_MAX_LENGTH
            /\ openai
            /\ srvDs = Resolve(1, "text")) => srvResp.status = 200

C5_NotConfiguredServerError ==
    (ChatDone /\ PlainlyValid(ReqMessage) /\ ~openai) =>
        /\ srvResp.status = 500
        /\ srvResp.code = "server_error"
        /\ srvResp.error = MSG_NOT_CONFIGURED
        /\ dsCalls = 0

\* a valid chat request would be answered "not configured"
ChatSaysNotConfigured ==
    ChatBeforeAwait(
        [message |-> JsStr([lead |-> 0, core |-> 1, trail |-> 0, tag |-> "a"]),
         sessionId |-> Absent]).error = MSG_NOT_CONFIGURED

\* C6 (as claimed): health answers 200 and reports configured = false
\* exactly when a valid chat request would be rejected as not configured.
C6_HealthAgreesWithChat ==
    (srvPhase = "done" /\ srvReq.route = "GET /api/health") =>
        /\ srvResp.status = 200
        /\ srvResp.configured = "false" <=> ChatSaysNotConfigured

\* C7 (as claimed): on downstream success the response's sessionId is the
\* request's when the request carries one, and "anonymous" when it carries
\* none.
C7_SessionIdEchoed ==
    (ChatDone /\ srvResp.status = 200) =>
        /\ srvReq.body.sessionId.kind = "string"
               => srvResp.sessionId = srvReq.body.sessionId
        /\ srvReq.body.sessionId.kind = "absent"
               => srvResp.sessionId = JsStr(AnonymousStr)

\* the downstream call failed: it rejected, or reading its result threw
DownstreamFailed ==
    /\ ChatDone
    /\ dsCalls = 1
    /\ \/ srvDs.kind = "reject"
       \/ srvDs.kind = "resolve" /\ (srvDs.choices = 0 \/ srvDs.content = "null")

\* the taxonomy entry and status the claim gives for a downstream failure
TaxonomyFor(ds) ==
    IF ds.kind # "reject" THEN <<"server_error", 500>>
    ELSE CASE ds.code = "insufficient_quota"      -> <<"quota_exceeded", 429>>
           [] ds.code = "invalid_api_key"         -> <<"invalid_key", 401>>
           [] ds.code = "rate_limit_exceeded"     -> <<"rate_limit", 429>>
           [] ds.code = "context_length_exceeded" -> <<"context_length", 400>>
           [] OTHER                               -> <<"server_error", 500>>

\* C8: on downstream failure the response carries the taxonomy code and the
\* status fixed for the downstream error code; every other failure, also an
\* exception while reading the result, is server_error/500.
C8_DownstreamErrorMapping ==
    DownstreamFailed =>
        /\ <<srvResp.code, srvResp.status>> = TaxonomyFor(srvDs)
        /\ srvSent = 1

\* C8 witness: the downstream call resolved without choices, reading the
\* result threw, and the answer is server_error/500
C8_Witness ==
    /\ DownstreamFailed
    /\ srvDs = Resolve(0, NoField)
    /\ srvResp.code = "server_error"
    /\ srvResp.status = 500

\* C9: unless NODE_ENV is exactly "development" no response carries a
\* details field, and the error field of every error response is one of the
\* server's fixed texts.
C9_NoRawErrorText ==
    srvPhase = "done" =>
        /\ nodeEnv # "development" => srvResp.details = NoField
        /\ srvResp.status >= 400 => srvResp.error \in FixedMessages
        /\ srvResp.status < 400 => srvResp.error = NoField

\* C9 witness: with NODE_ENV unset an unmapped downstream failure was
\* answered without details
C9_Witness ==
    /\ DownstreamFailed
    /\ nodeEnv = "unset"
    /\ srvDs = Reject("model_not_found")
    /\ srvResp.code = "server_error"
    /\ srvResp.details = NoField

\* an exception was raised while the request was processed, other than a
\* downstream rejection with one of the four mapped codes
ExceptionRaised ==
    \/ srvReq.route = "POST /api/chat, malformed body"
    \/ DownstreamFailed /\ TaxonomyFor(srvDs) = <<"server_error", 500>>

\* C10 (as claimed): an exception raised while a request is processed, also
\* a body that fails to parse, gives exactly one response, 500 with code
\* server_error.
C10_ExceptionsBecomeServerError ==
    (srvPhase = "done" /\ ExceptionRaised) =>
        /\ srvSent = 1
        /\ srvResp.status = 500
        /\ srvResp.code = "server_error"


\* ==================================================================
\*                       properties of the client
\* ==================================================================
\* C1: at most one chat request is in flight, and isLoading is true exactly
\* while one is, whatever the order of clicks, Enter presses, retry prompts,
\* clears and health checks.
C1_OneRequestInFlight ==
    /\ Len(inflight) <= 1
    /\ isLoading <=> Len(inflight) = 1

\* C1 witness: a request is in flight while a retry prompt and a health
\* check are pending
C1_Witness ==
    /\ isLoading
    /\ Len(inflight) = 1
    /\ retryTimers # <<>>
    /\ healthInFlight # <<>>

\* the step shows the retry prompt at the head of the timer queue
PromptShown == retryTimers # <<>> /\ retryTimers' = Tail(retryTimers)

\* the step handles a timed-out request
TimeoutHandled ==
    /\ Len(messages') = Len(messages) + 1
    /\ messages'[Len(messages')].role = "error"
    /\ messages'[Len(messages')].text = TXT_TIMEOUT

\* C2 (as claimed): the prompts shown for one original message never exceed
\* RETRY_ATTEMPTS, whatever other messages are sent in between; and a
\* timed-out attempt below the cap schedules exactly one prompt.
C2_PromptsCappedPerMessage ==
    /\ [][(PromptShown /\ Head(retryTimers).message = watch)
              => Head(retryTimers).chain + 1 <= RETRY_ATTEMPTS]_vars
    /\ [][(TimeoutHandled /\ retryCount < RETRY_ATTEMPTS)
              => Len(retryTimers') = Len(retryTimers) + 1]_vars

\* the step is a confirmed clear of a transcript that was not empty
ClearConfirmed == messages # <<>> /\ messages' = <<>>

\* C11 (as claimed): a confirmed clear of a non-empty transcript leaves the
\* transcript empty and the retry counter at zero, whatever the counter was.
C11_ClearResetsRetryCount ==
    [][ClearConfirmed => (messages' = <<>> /\ retryCount' = 0)]_vars

\* everything of the client but the history
clientAll == <<clientState, inflight, retryTimers, healthInFlight, late>>

\* C12: a clear on an empty transcript shows no confirmation prompt and
\* changes no client state; a clear whose confirmation is declined changes
\* no client state either.
C12_ClearWithoutEffect ==
    [][(last'.act = "clear" /\ (messages = <<>> \/ ~last'.confirmed)) =>
           /\ UNCHANGED clientAll
           /\ messages = <<>> => ~last'.asked]_vars

\* C12 witness: the confirmation of a clear was declined while a request
\* was in flight and the transcript was not empty
C12_Witness ==
    /\ last = Ran("clear", TRUE, FALSE)
    /\ messages # <<>>
    /\ isLoading

\* the step appends exactly one entry, of this role, and keeps the rest
OneEntryAppended(role) ==
    /\ Len(messages') = Len(messages) + 1
    /\ SubSeq(messages', 1, Len(messages)) = messages
    /\ messages'[Len(messages')].role = role

\* C13: when the 30 s timeout of a request fires, the attempt is handled as
\* a timeout, not as a network failure (timeout text, connection indicator
\* untouched, retry scheduled below the cap), exactly one error entry is
\* appended for it, and a response arriving after the abort changes no
\* client state: no assistant entry, and nothing else.
C13_TimeoutThenLateResponse ==
    [][/\ (\E i \in 1..Len(inflight) : TimeoutFires(i)) =>
            /\ OneEntryAppended("error")
            /\ messages'[Len(messages')].text = TXT_TIMEOUT
            /\ messages'[Len(messages')].of = inflight[1].message
            /\ connection' = connection
            /\ retryCount < RETRY_ATTEMPTS =>
                   Len(retryTimers') = Len(retryTimers) + 1
            /\ inflight' = <<>>
       /\ last'.act = "late" =>
            UNCHANGED <<clientState, inflight, retryTimers, healthInFlight>>]_vars

\* C13 witness: the response to a timed-out request arrived after the
\* message had been sent again on the retry prompt
C13_Witness ==
    /\ last.act = "late"
    /\ retryCount > 0
    /\ isLoading
    /\ inflight[1].phase = "fetch"

\* the step ends the request in flight
RequestEnds == Len(inflight) = 1 /\ inflight' = <<>>

\* a success response as the relay gives it: 2xx, a JSON object, its
\* sources a list or absent
WellFormedSuccess(r) ==
    /\ IsOk(r)
    /\ r.json
    /\ r.value = "object"
    /\ r.sources \in {NoField, "[]", "[s]"}

\* the step ends the request in flight with such a response read
EndsInSuccess ==
    /\ RequestEnds
    /\ inflight[1].phase = "body"
    /\ WellFormedSuccess(inflight[1].resp)

\* C14: whenever a request that entered sending ends otherwise than in
\* success, exactly one error entry is appended and the error banner is
\* visible: after a timeout, a network failure, every error answer of the
\* relay, an unclassified answer, and an exception that is no APIError.
C14_FailureShowsEntryAndBanner ==
    [][(RequestEnds /\ ~EndsInSuccess) =>
           /\ OneEntryAppended("error")
           /\ messages'[Len(messages')].of = inflight[1].message
           /\ errorVisible']_vars

\* C14 witness: a request ended in an exception that is no APIError, and
\* the entry with the default text and the banner are there
C14_Witness ==
    /\ ~isLoading
    /\ errorVisible
    /\ Len(messages) > 0
    /\ messages[Len(messages)].role = "error"
    /\ messages[Len(messages)].text = TXT_DEFAULT

\* the step ends the request in flight in a failure
EndsInFailure == RequestEnds /\ OneEntryAppended("error")

\* the error such a step handles
FailedWith ==
    IF inflight[1].phase = "body"
    THEN IF SendToAPIThrows(inflight[1].resp) # NoError
         THEN SendToAPIThrows(inflight[1].resp)
         ELSE OtherError
    ELSE IF messages'[Len(messages')].text = TXT_TIMEOUT
         THEN TimeoutError
         ELSE NetworkError

\* the error classes the client tells apart by their code
ClientCodes ==
    {"timeout", "network", "quota_exceeded", "invalid_key", "rate_limit",
     "context_length"}

\* the relay's answer to a request that fails its validation
IsValidation(error) ==
    /\ error.api
    /\ error.status = 400
    /\ error.code = NoField
    /\ error.message \in {MSG_REQUIRED, MSG_TOO_LONG}

\* the classes the claim calls retryable, and those it calls not retryable
ClaimedRetryable(error) ==
    /\ error.api
    /\ \/ error.code \in {"timeout", "rate_limit"}
       \/ error.code \notin ClientCodes /\ error.status >= 500
ClaimedNotRetryable(error) ==
    \/ error.api /\ error.code \in {"quota_exceeded", "invalid_key", "context_length"}
    \/ IsValidation(error)

\* the errors of every answer of the relay, of a gateway, and of the client
RelayErrors ==
    { ErrorFromResponse(ClientView(ServerAnswer(body, ds))) :
          body \in ChatBodies, ds \in DownstreamOutcomes }
ErrorsToClassify ==
    { e \in RelayErrors : e.status >= 400 }
    \cup { ErrorFromResponse(r) : r \in { g \in GatewayResponses : ~IsOk(g) } }
    \cup {TimeoutError}

\* C15: a failure below the retry cap increments retryCount by exactly one
\* and schedules exactly one retry prompt, for the failed message, when its
\* class is timeout, rate_limit, or server_error or unclassified with a
\* status of 500 or more; for validation, quota_exceeded, invalid_key and
\* context_length it leaves retryCount alone and schedules no prompt.
C15_RetryScheduledByClass ==
    /\ \A e \in ErrorsToClassify :
           /\ ClaimedRetryable(e) => CanRetry(e)
           /\ ClaimedNotRetryable(e) => ~CanRetry(e)
    /\ [][(EndsInFailure /\ retryCount < RETRY_ATTEMPTS) =>
              /\ ClaimedRetryable(FailedWith) =>
                     /\ retryCount' = retryCount + 1
                     /\ retryTimers' = Append(retryTimers,
                            [message |-> inflight[1].message,
                             chain |-> inflight[1].chain])
              /\ ClaimedNotRetryable(FailedWith) =>
                     UNCHANGED <<retryCount, retryTimers>>]_vars

\* C15 witness: a rate-limited request has raised retryCount to one and
\* scheduled the only retry prompt pending
C15_Witness ==
    /\ Len(messages) > 0
    /\ messages[Len(messages)].text = TXT_RATE
    /\ retryCount = 1
    /\ Len(retryTimers) = 1

\* C16 (as claimed): a request that fails because the server cannot be
\* reached is retryable: below the cap the failure increments retryCount and
\* schedules a retry prompt for the failed message.
C16_NetworkFailureRetryable ==
    [][(EndsInFailure /\ FailedWith = NetworkError /\ retryCount < RETRY_ATTEMPTS) =>
           /\ retryCount' = retryCount + 1
           /\ Len(retryTimers') = Len(retryTimers) + 1]_vars

\* C17: when a request succeeds the typing indicator is hidden, exactly one
\* assistant entry is appended, with the reply and the sources returned (an
\* empty list when none are), retryCount is zero and isLoading is false.
C17_SuccessAppendsAssistantEntry ==
    [][EndsInSuccess =>
           /\ ~typingVisible'
           /\ OneEntryAppended("assistant")
           /\ messages'[Len(messages')].text = inflight[1].resp.reply
           /\ messages'[Len(messages')].of = inflight[1].message
           /\ messages'[Len(messages')].sources =
                  IF inflight[1].resp.sources \in {"[]", "[s]"}
                  THEN inflight[1].resp.sources
                  ELSE "[]"
           /\ retryCount' = 0
           /\ ~isLoading']_vars

\* C17 witness: a request succeeded with a list of sources while the retry
\* prompt of an earlier failure was pending, and retryCount is zero again
C17_Witness ==
    /\ Len(messages) > 0
    /\ messages[Len(messages)].role = "assistant"
    /\ messages[Len(messages)].sources = "[s]"
    /\ retryTimers # <<>>
    /\ retryCount = 0
    /\ ~isLoading
    /\ ~typingVisible

\* the step sends a chat message or handles the result of one
ChatStep == inflight' # inflight

\* the step starts a health check or handles the result of one
HealthStep == healthInFlight' # healthInFlight

\* C18 (as claimed): chat handling and health checking touch disjoint
\* state: no step that sends a chat message or handles its result changes
\* the connection indicator, and no step of a health check changes the
\* transcript, isLoading or retryCount.
C18_ChatAndHealthDisjoint ==
    [][/\ ChatStep => connection' = connection
       /\ HealthStep => UNCHANGED <<messages, isLoading, retryCount>>]_vars

\* C19 (as claimed): whenever the user confirms a retry prompt, the original
\* message is resubmitted: a request carrying exactly that message is issued
\* and a user entry with it is appended, whatever happened since the
\* failure, also while another request is in flight.
C19_ConfirmedRetryResubmits ==
    [][RetryPrompt(TRUE) =>
           /\ Len(inflight') = Len(inflight) + 1
           /\ inflight'[Len(inflight')].message = Head(retryTimers).message
           /\ OneEntryAppended("user")
           /\ messages'[Len(messages')].of = Head(retryTimers).message]_vars

\* C20 (as claimed): every request that enters sending leaves it again,
\* with isLoading false and the typing indicator hidden, by the time its
\* timeout has run, even if the server never finishes delivering the
\* headers or the body of its response.
C20_SendingEventuallyEnds ==
    isLoading ~> (~isLoading /\ ~typingVisible)

\* the step is a submit attempt: a click on the send button, Enter, or a
\* confirmed retry prompt
SubmitAttempt == ClickSend \/ PressEnter \/ RetryPrompt(TRUE)

\* C21 (as claimed): a submit attempt made while a request is in flight is a
\* no-op: no request is issued, and the transcript, the composition input,
\* retryCount and isLoading stay as they are.
C21_SubmitWhileLoadingNoOp ==
    [][(isLoading /\ SubmitAttempt) =>
           UNCHANGED <<inflight, messages, inputValue, retryCount, isLoading>>]_vars

\* C22: retryCount is always between 0 and RETRY_ATTEMPTS, and it changes
\* only by one upwards, on a failure below the cap for which a retry prompt
\* is scheduled, or by being reset to 0.
C22_RetryCountBounded ==
    /\ [](retryCount \in 0..RETRY_ATTEMPTS)
    /\ [][retryCount' # retryCount =>
              \/ retryCount' = 0
              \/ /\ retryCount' = retryCount + 1
                 /\ retryCount < RETRY_ATTEMPTS
                 /\ EndsInFailure
                 /\ Len(retryTimers') = Len(retryTimers) + 1]_vars

\* C22 witness: retryCount has reached the cap after a failure
C22_Witness ==
    /\ retryCount = RETRY_ATTEMPTS
    /\ Len(messages) > 0
    /\ messages[Len(messages)].role = "error"

\* C23: the transcript is append-only except for clear: every step leaves
\* it unchanged, appends exactly one entry at its end and keeps the entries
\* it had, or, as a confirmed clear only, replaces it with the empty
\* sequence.
C23_TranscriptAppendOnly ==
    [][\/ messages' = messages
       \/ /\ Len(messages') = Len(messages) + 1
          /\ SubSeq(messages', 1, Len(messages)) = messages
       \/ /\ messages' = <<>>
          /\ ClearChat(TRUE)]_vars

\* C23 witness: a request and its answer were appended after the entries of
\* an earlier, failed request had been cleared
C23_Witness ==
    /\ Len(messages) = 2
    /\ messages[1].role = "user"
    /\ messages[2].role = "assistant"
    /\ retryTimers # <<>>

\* the step ends the request in flight with a non-2xx answer read whose
\* body is not JSON
EndsInUnparsedError ==
    /\ RequestEnds
    /\ inflight[1].phase = "body"
    /\ ~IsOk(inflight[1].resp)
    /\ ~inflight[1].resp.json

\* C24: a non-2xx answer whose body is not valid JSON does not make the
\* client fail: the error has the text "HTTP <status>", the status and no
\* code, its entry is appended, isLoading is false again, and it is retried
\* exactly when the status is 500 or more (and the cap is not reached).
C24_UnparsedErrorBody ==
    [][EndsInUnparsedError =>
           /\ FailedWith = APIError(inflight[1].resp.status, TXT_HTTP, NoField)
           /\ OneEntryAppended("error")
           /\ messages'[Len(messages')].text = TXT_HTTP
           /\ ~isLoading'
           /\ ~typingVisible'
           /\ (inflight[1].resp.status >= 500 /\ retryCount < RETRY_ATTEMPTS) =>
                  /\ retryCount' = retryCount + 1
                  /\ Len(retryTimers') = Len(retryTimers) + 1
           /\ inflight[1].resp.status < 500 =>
                  UNCHANGED <<retryCount, retryTimers>>]_vars

\* C24 witness: a 502 without a JSON body was handled and its retry prompt
\* is pending
C24_Witness ==
    /\ Len(messages) > 0
    /\ messages[Len(messages)].text = TXT_HTTP
    /\ ~isLoading
    /\ retryCount = 1
    /\ Len(retryTimers) = 1

\* C25: while retryCount is at the cap no failed request, of whatever
\* class, schedules a retry prompt or changes retryCount, and no submit
\* attempt changes retryCount; retryCount leaves the cap only by the reset
\* to 0 of a successful response.
C25_NoPromptAtCap ==
    [][retryCount = RETRY_ATTEMPTS =>
           /\ EndsInFailure => UNCHANGED <<retryCount, retryTimers>>
           /\ SubmitAttempt => retryCount' = retryCount
           /\ Len(retryTimers') <= Len(retryTimers)
           /\ retryCount' # retryCount => (retryCount' = 0 /\ EndsInSuccess)]_vars

\* C25 witness: at the cap a request has timed out without a retry prompt:
\* the prompt of an earlier failure is still pending, so one scheduled for
\* this request would be pending behind it
C25_Witness ==
    /\ retryCount = RETRY_ATTEMPTS
    /\ ~isLoading
    /\ Len(messages) > 0
    /\ messages[Len(messages)].text = TXT_TIMEOUT
    /\ retryTimers # <<>>
    /\ \A k \in 1..Len(retryTimers) :
           retryTimers[k].message # messages[Len(messages)].of

\* the step completes health check i, which is not the one issued last,
\* after the one issued last has completed
StaleHealthCompletes ==
    /\ \A k \in 1..Len(healthInFlight) : ~healthInFlight[k]
    /\ \E i \in 1..Len(healthInFlight) :
           healthInFlight' = RemoveAt(healthInFlight, i)

\* C26 (as claimed): when several health checks are in flight and complete
\* in any order, the connection indicator ends up showing the result of the
\* check issued last: a check issued earlier that completes after it does
\* not change the indicator.
C26_NewestHealthCheckWins ==
    [][StaleHealthCompletes => connection' = connection]_vars

\* C27 (as claimed): every assistant or error entry of the transcript is
\* preceded, earlier in the same transcript, by the user entry of the
\* request it answers, also when the transcript is cleared while a request
\* is in flight.
C27_AnswerFollowsItsUserEntry ==
    \A k \in 1..Len(messages) :
        messages[k].role \in {"assistant", "error"} =>
            \E j \in 1..(k - 1) :
                /\ messages[j].role = "user"
                /\ messages[j].of = messages[k].of

\* the relay's input validation of lines 69-80 accepts the message
PassesServerValidation(message) ==
    /\ ~IsInvalidMessage(JsStr(message))
    /\ ~IsTooLong(JsStr(message))

\* C28: every chat request the client has issued, by a click, by Enter or by
\* a confirmed retry, carries a text that is non-empty after trimming and at
\* most 4000 characters long, and the relay's input validation accepts it.
C28_ClientRequestsPassValidation ==
    \A i \in 1..Len(inflight) :
        /\ JsLength(Trim(inflight[i].message)) > 0
        /\ JsLength(inflight[i].message) <= MAX_MESSAGE_LENGTH
        /\ PassesServerValidation(inflight[i].message)

\* a request carrying a text of exactly 4000 characters is in flight, issued
\* by a confirmed retry
C28_Witness ==
    /\ Len(inflight) = 1
    /\ JsLength(inflight[1].message) = MAX_MESSAGE_LENGTH
    /\ retryCount > 0
    /\ inflight[1].phase = "fetch"
    /\ Len(messages) = 1

====
